---- MODULE Spec2Model ----
(***************************************************************************)
(* Model of the workspace traversal of streamlit.py:                       *)
(*   fetch_workspace_details -> fetch_space_details ->                     *)
(*   fetch_folder_details -> fetch_list_details,                           *)
(* each level fanning out over its own ThreadPoolExecutor, and the        *)
(* st.cache_data wrapper around fetch_workspace_details.                   *)
(*                                                                         *)
(* Text that the code transforms (str.lower) is modelled as a sequence of  *)
(* one-character strings, so that the transformation is computed.          *)
(***************************************************************************)
EXTENDS Integers, Sequences, FiniteSets, TLC

\* ---------------------------------------------------------------- bounds

\* Worker threads of one ThreadPoolExecutor() (the default max_workers,
\* min(32, cpu_count + 4), scaled down).
MaxWorkers == 2

\* The wall clock (time.time()) runs from 1 to MaxNow.
MaxNow == 2

\* Invocations of fetch_workspace_details in one run of the application.
MaxCalls == 2

\* ------------------------------------------------------- remote hierarchy

Team == "team"
Spaces == {"s1", "s2"}
Folders == {"f1", "f2"}
Lists == {"l1", "l2", "l3"}
Nodes == Spaces \cup Folders \cup Lists
Parents == {Team} \cup Spaces \cup Folders

\* The JSON key under which a node's children are listed.
ChildKey(p) ==
    IF p = Team THEN "spaces"
    ELSE IF p \in Spaces THEN "folders"
    ELSE IF p \in Folders THEN "lists"
    ELSE "tasks"

\* ----------------------------------------------------------------- text

UpperLetters ==
    <<"A","B","C","D","E","F","G","H","I","J","K","L","M",
      "N","O","P","Q","R","S","T","U","V","W","X","Y","Z">>
LowerLetters ==
    <<"a","b","c","d","e","f","g","h","i","j","k","l","m",
      "n","o","p","q","r","s","t","u","v","w","x","y","z">>

LowerChar(c) ==
    IF \E i \in DOMAIN UpperLetters : UpperLetters[i] = c
    THEN LowerLetters[CHOOSE i \in DOMAIN UpperLetters : UpperLetters[i] = c]
    ELSE c

\* str.lower()
str_lower(s) == [i \in 1..Len(s) |-> LowerChar(s[i])]

s_closed == <<"c","l","o","s","e","d">>
s_done == <<"d","o","n","e">>
s_completed == <<"c","o","m","p","l","e","t","e","d">>
s_urgent == <<"u","r","g","e","n","t">>
s_high == <<"h","i","g","h">>
s_Closed == <<"C","l","o","s","e","d">>
s_open == <<"o","p","e","n">>
s_Urgent == <<"U","r","g","e","n","t">>
s_HIGH == <<"H","I","G","H">>
s_normal == <<"n","o","r","m","a","l">>
s_empty == << >>

\* ----------------------------------------------------------------- JSON

\* dict.get(key, default)
Get(d, key, default) == IF key \in DOMAIN d THEN d[key] ELSE default

EmptyDict == [x \in {} |-> 0]

\* Task records the remote may report.
tA == [id |-> "t1", status |-> [type |-> s_done], due_date |-> 1,
       priority |-> s_urgent, assignees |-> << >>,
       custom_fields |-> << [id |-> "cf1", name |-> "Sprint"] >>]
tB == [id |-> "t2", status |-> [type |-> s_Closed],
       priority |-> s_Urgent, assignees |-> <<"u1">>,
       custom_fields |-> << [id |-> "cf2"] >>]
tC == [id |-> "t3", status |-> [type |-> s_open], due_date |-> 1,
       priority |-> s_HIGH, assignees |-> <<"u1">>,
       custom_fields |-> << [id |-> "cf1", name |-> "Sprint"] >>]
tD == [id |-> "t4", assignees |-> <<"u2">>, priority |-> s_normal]

Ids(seq) == [i \in 1..Len(seq) |-> [id |-> seq[i]]]

\* The child arrays a parent's endpoint may report.
ChildSeqs(p) ==
    IF p = Team THEN { Ids(<< >>), Ids(<<"s1">>), Ids(<<"s1", "s2">>) }
    ELSE IF p = "s1" THEN { Ids(<<"f1">>), Ids(<<"f1", "f2">>) }
    ELSE IF p = "s2" THEN { Ids(<< >>) }
    ELSE IF p = "f1" THEN { Ids(<<"l2">>), Ids(<<"l1", "l2", "l3">>) }
    ELSE IF p = "f2" THEN { Ids(<< >>) }
    ELSE IF p = "l1" THEN { <<tA, tD>> }
    ELSE IF p = "l2" THEN { <<tB, tC>> }
    ELSE { << >> }

\* The statuses with which a node's endpoint may answer an error JSON body.
ErrStatuses(p) ==
    IF p = Team THEN {401}
    ELSE IF p = "s1" THEN {500}
    ELSE IF p \in Folders THEN {404}
    ELSE IF p \in Lists THEN {429}
    ELSE {}

\* The nodes whose request may fail at network level.
Unreachable == {Team} \cup Spaces \cup {"f1"} \cup Lists

NoResp == [kind |-> "none"]
Exc == [kind |-> "exception"]
OkResp(p, items) ==
    [kind |-> "response", status |-> 200,
     body |-> [k \in {ChildKey(p)} |-> items]]
ErrResp(code) ==
    [kind |-> "response", status |-> code, body |-> [err |-> "error"]]

\* What requests.get(url).json() can produce for the endpoint of node p:
\* the named array, an error JSON body, or an exception (network failure).
Outcomes(p) ==
    { OkResp(p, items) : items \in ChildSeqs(p) }
    \cup { ErrResp(code) : code \in ErrStatuses(p) }
    \cup (IF p \in Unreachable THEN { Exc } ELSE {})

\* ------------------------------------------------------- classification

\* status = task.get("status", {}).get("type", "").lower()
status_of(task) ==
    str_lower(Get(Get(task, "status", EmptyDict), "type", s_empty))

is_completed(task) == status_of(task) \in {s_closed, s_done, s_completed}

\* task.get("due_date") and int(task["due_date"]) < int(time.time() * 1000)
is_overdue(task, t) == "due_date" \in DOMAIN task /\ task.due_date < t

\* task.get("priority", "") in ["urgent", "high"]
is_high_priority(task) ==
    Get(task, "priority", s_empty) \in {s_urgent, s_high}

\* not task.get("assignees")
is_unassigned(task) == Get(task, "assignees", << >>) = << >>

\* cf.get("name", cf.get("id", "Unknown")) for each custom field
custom_field_names(task) ==
    LET cfs == Get(task, "custom_fields", << >>)
    IN  { Get(cfs[i], "name", Get(cfs[i], "id", "Unknown")) : i \in 1..Len(cfs) }

\* ---------------------------------------------------------- accumulators

ZeroAcc ==
    [space_count |-> 0, folder_count |-> 0, list_count |-> 0, task_count |-> 0,
     completed_tasks |-> 0, overdue_tasks |-> 0, high_priority_tasks |-> 0,
     unassigned_tasks |-> 0, custom_fields_set |-> {}]

\* One iteration of the task loop of fetch_list_details, the clock reading t.
ClassifyInto(a, task, t) ==
    [a EXCEPT
       !.completed_tasks = @ + (IF is_completed(task) THEN 1 ELSE 0),
       !.overdue_tasks = @ + (IF is_overdue(task, t) THEN 1 ELSE 0),
       !.high_priority_tasks = @ + (IF is_high_priority(task) THEN 1 ELSE 0),
       !.unassigned_tasks = @ + (IF is_unassigned(task) THEN 1 ELSE 0),
       !.custom_fields_set = @ \cup custom_field_names(task)]

\* The dictionaries the three workers return.
ListResult(a) ==
    [task_count |-> a.task_count, completed_tasks |-> a.completed_tasks,
     overdue_tasks |-> a.overdue_tasks,
     high_priority_tasks |-> a.high_priority_tasks,
     unassigned_tasks |-> a.unassigned_tasks,
     custom_fields_set |-> a.custom_fields_set]
FolderResult(a) ==
    [list_count |-> a.list_count, task_count |-> a.task_count,
     completed_tasks |-> a.completed_tasks, overdue_tasks |-> a.overdue_tasks,
     high_priority_tasks |-> a.high_priority_tasks,
     unassigned_tasks |-> a.unassigned_tasks,
     custom_fields_set |-> a.custom_fields_set]
SpaceResult(a) ==
    [folder_count |-> a.folder_count, list_count |-> a.list_count,
     task_count |-> a.task_count, completed_tasks |-> a.completed_tasks,
     overdue_tasks |-> a.overdue_tasks,
     high_priority_tasks |-> a.high_priority_tasks,
     unassigned_tasks |-> a.unassigned_tasks,
     custom_fields_set |-> a.custom_fields_set]

\* A fold that counts a list's tasks twice.
FoldListTwice(a, r) ==
    [a EXCEPT
       !.task_count = @ + r.task_count + r.task_count,
       !.completed_tasks = @ + r.completed_tasks,
       !.overdue_tasks = @ + r.overdue_tasks,
       !.high_priority_tasks = @ + r.high_priority_tasks,
       !.unassigned_tasks = @ + Get(r, "unassigned_tasks", 0),
       !.custom_fields_set = @ \cup Get(r, "custom_fields_set", {})]

\* The body of the as_completed loop of fetch_folder_details.
FoldList(a, r) ==
    [a EXCEPT
       !.task_count = @ + r.task_count,
       !.completed_tasks = @ + r.completed_tasks,
       !.overdue_tasks = @ + r.overdue_tasks,
       !.high_priority_tasks = @ + r.high_priority_tasks,
       !.unassigned_tasks = @ + Get(r, "unassigned_tasks", 0),
       !.custom_fields_set = @ \cup Get(r, "custom_fields_set", {})]

\* The body of the as_completed loop of fetch_space_details.
FoldFolder(a, r) ==
    [a EXCEPT
       !.list_count = @ + r.list_count,
       !.task_count = @ + r.task_count,
       !.completed_tasks = @ + r.completed_tasks,
       !.overdue_tasks = @ + r.overdue_tasks,
       !.high_priority_tasks = @ + r.high_priority_tasks,
       !.unassigned_tasks = @ + Get(r, "unassigned_tasks", 0),
       !.custom_fields_set = @ \cup Get(r, "custom_fields_set", {})]

\* A fold that keeps the last space's numbers instead of adding them.
FoldSpaceAssign(a, r) ==
    [a EXCEPT
       !.folder_count = r.folder_count,
       !.list_count = r.list_count,
       !.task_count = r.task_count,
       !.completed_tasks = r.completed_tasks,
       !.overdue_tasks = r.overdue_tasks,
       !.high_priority_tasks = r.high_priority_tasks,
       !.unassigned_tasks = Get(r, "unassigned_tasks", 0),
       !.custom_fields_set = Get(r, "custom_fields_set", {})]

\* The body of the as_completed loop of fetch_workspace_details.
FoldSpace(a, r) ==
    [a EXCEPT
       !.folder_count = @ + r.folder_count,
       !.list_count = @ + r.list_count,
       !.task_count = @ + r.task_count,
       !.completed_tasks = @ + r.completed_tasks,
       !.overdue_tasks = @ + r.overdue_tasks,
       !.high_priority_tasks = @ + r.high_priority_tasks,
       !.unassigned_tasks = @ + Get(r, "unassigned_tasks", 0),
       !.custom_fields_set = @ \cup Get(r, "custom_fields_set", {})]

\* Line 128: (completed_tasks / task_count * 100) if task_count > 0 else 0,
\* as the fraction <<numerator, denominator>>.
task_completion_rate(a) ==
    IF a.task_count > 0 THEN <<a.completed_tasks * 100, a.task_count>>
    ELSE <<0, 1>>

\* The dictionary fetch_workspace_details returns on success.  The rate
\* computed on line 128 is a local that is not put into it.
Snapshot(a) ==
    [Spaces |-> a.space_count, Folders |-> a.folder_count,
     Lists |-> a.list_count, TotalTasks |-> a.task_count,
     OverdueTasks |-> a.overdue_tasks,
     HighPriorityTasks |-> a.high_priority_tasks,
     UnassignedTasks |-> a.unassigned_tasks,
     CustomFieldsUsed |-> Cardinality(a.custom_fields_set)]

\* The dictionary the except clause returns.
ErrorResult == [error |-> "Exception"]

NoResult == [none |-> TRUE]

IsSnapshot(r) == "Spaces" \in DOMAIN r
IsError(r) == "error" \in DOMAIN r

\* ---------------------------------------------------------------- state

VARIABLES
    pc,          \* where fetch_workspace_details stands
    call_args,   \* (api_key, team_id) of the current invocation
    calls,       \* invocations made so far
    cache,       \* st.cache_data: arguments -> retained return value
    result,      \* what the last invocation returned
    st,          \* per space, folder, list: the state of its future
    queue,       \* per parent: the work queue of its executor
    resp,        \* per node: what its request produced
    acc,         \* per node: the local accumulators of its function
    ret,         \* per node: the dictionary its function returned
    idx,         \* per list: position of the task loop
    now,         \* the wall clock
    start_time,  \* the clock when the root request was sent
    sent         \* per node: the requests issued for it

vars == <<pc, call_args, calls, cache, result, st, queue, resp, acc, ret,
          idx, now, start_time, sent>>

Args == { <<"key", Team>> }
NoArgs == << >>
NoRet == [none |-> TRUE]

\* The locals of one invocation, before anything ran.
FreshSt == [n \in Nodes |-> "unsubmitted"]
FreshQueue == [p \in Parents |-> << >>]
FreshResp == [n \in {Team} \cup Nodes |-> NoResp]
FreshAcc == [n \in {Team} \cup Nodes |-> ZeroAcc]
FreshRet == [n \in Nodes |-> NoRet]
FreshIdx == [l \in Lists |-> 0]
FreshSent == [n \in {Team} \cup Nodes |-> 0]

Init ==
    /\ pc = "idle"
    /\ call_args = NoArgs
    /\ calls = 0
    /\ cache = [a \in Args |-> NoResult]
    /\ result = NoResult
    /\ st = FreshSt
    /\ queue = FreshQueue
    /\ resp = FreshResp
    /\ acc = FreshAcc
    /\ ret = FreshRet
    /\ idx = FreshIdx
    /\ now = 1
    /\ start_time = 1
    /\ sent = FreshSent

\* ------------------------------------------------------------- helpers

\* response.get(key, [])
Children(p) ==
    IF resp[p].kind = "response"
    THEN Get(resp[p].body, ChildKey(p), << >>)
    ELSE << >>

ChildIds(seq) == [i \in 1..Len(seq) |-> seq[i].id]

\* The nodes submitted to the executor of parent p.
Kids(p) == { Children(p)[i].id : i \in 1..Len(Children(p)) }

\* The futures of p's executor a worker thread is running.
Running(p) ==
    { c \in Kids(p) : st[c] \in {"fetching", "classifying", "waiting", "shutdown"} }

\* A pool that starts a thread for every work item submitted.
WorkerFreeUnbounded(p) == TRUE

\* One pool shared by every level: a work item of any executor starts only
\* while fewer than max_workers work items run in the whole traversal.
WorkerFreeShared(p) ==
    Cardinality(UNION { Running(q) : q \in Parents }) < MaxWorkers

\* A ThreadPoolExecutor runs at most max_workers work items at a time.
WorkerFree(p) == Cardinality(Running(p)) < MaxWorkers

Finished(c) == st[c] \in {"done", "raised", "collected"}

\* The cached function's return: the wrapper retains the value under the
\* arguments of the call.
Return(r) ==
    /\ result' = r
    /\ cache' = [cache EXCEPT ![call_args] = r]
    /\ pc' = "returned"

\* As if raise_for_status() were called on every response.
RaisesOnErrorStatus(o) == o.kind = "exception" \/ o.status # 200

\* requests.get(...).json() raised instead of producing a dictionary.
Raises(o) == o.kind = "exception"

\* ---------------------------------------------------------------- actions

\* A wrapper that never finds a retained value.
CacheMiss(a) == FALSE

\* st.cache_data: a value is retained for these arguments.
CacheHit(a) == cache[a] # NoResult

\* A call of fetch_workspace_details(api_key, team_id) through st.cache_data:
\* a retained value is returned without running the function.
Invoke(a) ==
    /\ pc \in {"idle", "returned"}
    /\ calls < MaxCalls
    /\ calls' = calls + 1
    /\ call_args' = a
    /\ st' = FreshSt
    /\ queue' = FreshQueue
    /\ resp' = FreshResp
    /\ acc' = FreshAcc
    /\ ret' = FreshRet
    /\ idx' = FreshIdx
    /\ sent' = FreshSent
    /\ IF CacheHit(a)
       THEN /\ result' = cache[a]
            /\ pc' = "returned"
            /\ UNCHANGED <<cache, now, start_time>>
       ELSE /\ result' = NoResult
            /\ pc' = "rootfetch"
            /\ start_time' = now
            /\ UNCHANGED <<cache, now>>

\* Lines 102-116: the request for the team's spaces, and the submission of
\* one fetch_space_details per space; an exception goes to the except clause.
RootFetch ==
    /\ pc = "rootfetch"
    /\ \E o \in Outcomes(Team) :
        /\ resp' = [resp EXCEPT ![Team] = o]
        /\ IF Raises(o)
           THEN /\ Return(ErrorResult)
                /\ UNCHANGED <<acc, queue, st>>
           ELSE LET spaces == Get(o.body, "spaces", << >>) IN
                /\ acc' = [acc EXCEPT ![Team].space_count = Len(spaces)]
                /\ queue' = [queue EXCEPT ![Team] = ChildIds(spaces)]
                /\ st' = [n \in Nodes |->
                            IF \E i \in 1..Len(spaces) : spaces[i].id = n
                            THEN "queued" ELSE st[n]]
                /\ pc' = "fanout"
                /\ UNCHANGED <<result, cache>>
    /\ sent' = [sent EXCEPT ![Team] = @ + 1]
    /\ UNCHANGED <<call_args, calls, ret, idx, now, start_time>>

\* A worker thread of p's executor takes the next work item of its queue.
StartWorker(p) ==
    /\ queue[p] # << >>
    /\ WorkerFree(p)
    /\ st' = [st EXCEPT ![Head(queue[p])] = "fetching"]
    /\ queue' = [queue EXCEPT ![p] = Tail(@)]
    /\ UNCHANGED sent
    /\ UNCHANGED <<pc, call_args, calls, cache, result, resp, acc, ret, idx,
                   now, start_time>>

\* The request of a space or a folder for its children, and the submission
\* of one worker per child to a new executor.
FetchAndSubmit(n, o) ==
    /\ st[n] = "fetching"
    /\ resp' = [resp EXCEPT ![n] = o]
    /\ IF Raises(o)
       THEN /\ st' = [st EXCEPT ![n] = "raised"]
            /\ UNCHANGED <<acc, queue>>
       ELSE LET kids == Get(o.body, ChildKey(n), << >>) IN
            /\ acc' = [acc EXCEPT ![n] =
                         IF n \in Spaces
                         THEN [@ EXCEPT !.folder_count = @ + Len(kids)]
                         ELSE [@ EXCEPT !.list_count = @ + Len(kids)]]
            /\ queue' = [queue EXCEPT ![n] = ChildIds(kids)]
            /\ st' = [m \in Nodes |->
                        IF m = n THEN "waiting"
                        ELSE IF \E i \in 1..Len(kids) : kids[i].id = m
                        THEN "queued" ELSE st[m]]
    /\ sent' = [sent EXCEPT ![n] = @ + 1]
    /\ UNCHANGED <<pc, call_args, calls, cache, result, ret, idx, now,
                   start_time>>

\* fetch_space_details, lines 147-161.
SpaceFetch(s) == \E o \in Outcomes(s) : FetchAndSubmit(s, o)

\* fetch_folder_details, lines 185-199.
FolderFetch(f) == \E o \in Outcomes(f) : FetchAndSubmit(f, o)

\* fetch_list_details, lines 221-236: the request for the tasks of a list.
ListFetch(l) ==
    /\ st[l] = "fetching"
    /\ \E o \in Outcomes(l) :
        /\ resp' = [resp EXCEPT ![l] = o]
        /\ IF Raises(o)
           THEN /\ st' = [st EXCEPT ![l] = "raised"]
                /\ UNCHANGED <<acc, idx>>
           ELSE LET tasks == Get(o.body, "tasks", << >>) IN
                /\ acc' = [acc EXCEPT ![l].task_count = @ + Len(tasks)]
                /\ idx' = [idx EXCEPT ![l] = 1]
                /\ st' = [st EXCEPT ![l] = "classifying"]
    /\ sent' = [sent EXCEPT ![l] = @ + 1]
    /\ UNCHANGED <<pc, call_args, calls, cache, result, queue, ret, now,
                   start_time>>

\* fetch_list_details, lines 238-251: one iteration of the task loop; the
\* clock is read in each iteration.
ClassifyTask(l) ==
    /\ st[l] = "classifying"
    /\ idx[l] <= Len(Children(l))
    /\ acc' = [acc EXCEPT ![l] = ClassifyInto(@, Children(l)[idx[l]], now)]
    /\ idx' = [idx EXCEPT ![l] = @ + 1]
    /\ UNCHANGED sent
    /\ UNCHANGED <<pc, call_args, calls, cache, result, st, queue, resp, ret,
                   now, start_time>>

\* fetch_list_details, lines 255-262.
ListReturn(l) ==
    /\ st[l] = "classifying"
    /\ idx[l] > Len(Children(l))
    /\ ret' = [ret EXCEPT ![l] = ListResult(acc[l])]
    /\ st' = [st EXCEPT ![l] = "done"]
    /\ UNCHANGED sent
    /\ UNCHANGED <<pc, call_args, calls, cache, result, queue, resp, acc, idx,
                   now, start_time>>

\* One iteration of an as_completed loop in a space or folder worker p:
\* future.result() of a finished child c either yields its dictionary, which
\* is added to p's accumulators, or re-raises the child's exception, which
\* leaves the with block (the executor is shut down, waiting for its work).
Collect(p, c, folded) ==
    /\ st[p] = "waiting"
    /\ c \in Kids(p)
    /\ st[c] \in {"done", "raised"}
    /\ IF st[c] = "done"
       THEN /\ acc' = [acc EXCEPT ![p] = folded]
            /\ st' = [st EXCEPT ![c] = "collected"]
       ELSE /\ st' = [st EXCEPT ![c] = "collected", ![p] = "shutdown"]
            /\ UNCHANGED acc
    /\ UNCHANGED sent
    /\ UNCHANGED <<pc, call_args, calls, cache, result, queue, resp, ret, idx,
                   now, start_time>>

\* fetch_space_details, lines 162-170.
SpaceCollect(s, f) == Collect(s, f, FoldFolder(acc[s], ret[f]))

\* fetch_folder_details, lines 200-207.
FolderCollect(f, l) == Collect(f, l, FoldList(acc[f], ret[l]))

\* fetch_space_details, lines 172-181: every future was consumed.
SpaceReturn(s) ==
    /\ st[s] = "waiting"
    /\ \A c \in Kids(s) : st[c] = "collected"
    /\ ret' = [ret EXCEPT ![s] = SpaceResult(acc[s])]
    /\ st' = [st EXCEPT ![s] = "done"]
    /\ UNCHANGED sent
    /\ UNCHANGED <<pc, call_args, calls, cache, result, queue, resp, acc, idx,
                   now, start_time>>

\* fetch_folder_details, lines 209-217.
FolderReturn(f) ==
    /\ st[f] = "waiting"
    /\ \A c \in Kids(f) : st[c] = "collected"
    /\ ret' = [ret EXCEPT ![f] = FolderResult(acc[f])]
    /\ st' = [st EXCEPT ![f] = "done"]
    /\ UNCHANGED sent
    /\ UNCHANGED <<pc, call_args, calls, cache, result, queue, resp, acc, idx,
                   now, start_time>>

\* The with block of a worker left by an exception: shutdown(wait=True) has
\* waited for every work item of the executor, then the exception leaves
\* the worker's function and is set on its future.
Propagate(p) ==
    /\ st[p] = "shutdown"
    /\ \A c \in Kids(p) : Finished(c)
    /\ st' = [st EXCEPT ![p] = "raised"]
    /\ UNCHANGED sent
    /\ UNCHANGED <<pc, call_args, calls, cache, result, queue, resp, acc, ret,
                   idx, now, start_time>>

\* fetch_workspace_details, lines 117-126: one iteration of the loop.
RootCollect(s) ==
    /\ pc = "fanout"
    /\ s \in Kids(Team)
    /\ st[s] \in {"done", "raised"}
    /\ st' = [st EXCEPT ![s] = "collected"]
    /\ IF st[s] = "done"
       THEN /\ acc' = [acc EXCEPT ![Team] = FoldSpace(@, ret[s])]
            /\ UNCHANGED pc
       ELSE /\ pc' = "shutdown"
            /\ UNCHANGED acc
    /\ UNCHANGED sent
    /\ UNCHANGED <<call_args, calls, cache, result, queue, resp, ret, idx,
                   now, start_time>>

\* fetch_workspace_details, lines 128-139: the loop is over, the snapshot is
\* built and returned.
RootReturn ==
    /\ pc = "fanout"
    /\ \A s \in Kids(Team) : st[s] = "collected"
    /\ Return(Snapshot(acc[Team]))
    /\ UNCHANGED sent
    /\ UNCHANGED <<call_args, calls, st, queue, resp, acc, ret, idx, now,
                   start_time>>

\* fetch_workspace_details, lines 140-143: a worker's exception left the
\* with block once the executor has run all its work; the except clause
\* returns the error dictionary.
RootExcept ==
    /\ pc = "shutdown"
    /\ \A s \in Kids(Team) : Finished(s)
    /\ Return(ErrorResult)
    /\ UNCHANGED sent
    /\ UNCHANGED <<call_args, calls, st, queue, resp, acc, ret, idx, now,
                   start_time>>

\* Time passes while a traversal runs.
Tick ==
    /\ pc \in {"rootfetch", "fanout", "shutdown"}
    /\ now < MaxNow
    /\ now' = now + 1
    /\ UNCHANGED sent
    /\ UNCHANGED <<pc, call_args, calls, cache, result, st, queue, resp, acc,
                   ret, idx, start_time>>

Next ==
    \/ \E a \in Args : Invoke(a)
    \/ RootFetch
    \/ \E p \in Parents : StartWorker(p)
    \/ \E s \in Spaces : SpaceFetch(s)
    \/ \E f \in Folders : FolderFetch(f)
    \/ \E l \in Lists : ListFetch(l)
    \/ \E l \in Lists : ClassifyTask(l)
    \/ \E l \in Lists : ListReturn(l)
    \/ \E s \in Spaces, f \in Folders : SpaceCollect(s, f)
    \/ \E f \in Folders, l \in Lists : FolderCollect(f, l)
    \/ \E s \in Spaces : SpaceReturn(s)
    \/ \E f \in Folders : FolderReturn(f)
    \/ \E p \in Spaces \cup Folders : Propagate(p)
    \/ \E s \in Spaces : RootCollect(s)
    \/ RootReturn
    \/ RootExcept
    \/ Tick

Spec == Init /\ [][Next]_vars

\* The steps of the threads of one traversal: every step of Next but a new
\* call of the function and the passing of time.
Progress ==
    \/ RootFetch
    \/ \E p \in Parents : StartWorker(p)
    \/ \E s \in Spaces : SpaceFetch(s)
    \/ \E f \in Folders : FolderFetch(f)
    \/ \E l \in Lists : ListFetch(l)
    \/ \E l \in Lists : ClassifyTask(l)
    \/ \E l \in Lists : ListReturn(l)
    \/ \E s \in Spaces, f \in Folders : SpaceCollect(s, f)
    \/ \E f \in Folders, l \in Lists : FolderCollect(f, l)
    \/ \E s \in Spaces : SpaceReturn(s)
    \/ \E f \in Folders : FolderReturn(f)
    \/ \E p \in Spaces \cup Folders : Propagate(p)
    \/ \E s \in Spaces : RootCollect(s)
    \/ RootReturn
    \/ RootExcept

\* The traversal where a thread that can take a step eventually takes one:
\* the operating system schedules every runnable thread, and every HTTP
\* request eventually returns.
SpecFair == Init /\ [][Next]_vars /\ WF_vars(Progress)

\* ------------------------------------------------------------ properties

\* The current invocation ran the function (it was not served from the cache).
Traversed == resp[Team] # NoResp

Done == pc = "returned"

IsResponse(n) == resp[n].kind = "response"
HasStatus(n, code) == IsResponse(n) /\ resp[n].status = code

\* The request of n produced no usable answer: an exception, or a response
\* that is not a success.
FetchFailed(n) == resp[n] # NoResp /\ ~HasStatus(n, 200)

RECURSIVE SumOver(_, _)
SumOver(S, f) ==
    IF S = {} THEN 0
    ELSE LET x == CHOOSE y \in S : TRUE IN f[x] + SumOver(S \ {x}, f)

\* The nodes the remote reported, level by level.
RepSpaces == Kids(Team)
RepFolders == UNION { Kids(s) : s \in RepSpaces }
RepLists == UNION { Kids(f) : f \in RepFolders }

\* The node requests in flight.
InFlight == { n \in Nodes : st[n] = "fetching" }

RootFailed == FetchFailed(Team)

\* C2: with the root request answered, a failing request of a space, folder
\* or list never fails the call: a snapshot is returned, holding the tasks
\* of the lists that were fetched.
C2_NodeFailureIsCollected ==
    (Done /\ Traversed /\ ~RootFailed) =>
        /\ IsSnapshot(result)
        /\ result.TotalTasks =
             SumOver(RepLists, [l \in Lists |-> Len(Children(l))])

\* C3: a list whose tasks request failed is named by exactly one entry of
\* the snapshot's errors, and none of its tasks is counted.
C3_FailedListIsReported ==
    (Done /\ Traversed /\ IsSnapshot(result)) =>
        \A l \in RepLists :
            FetchFailed(l) =>
                /\ acc[l].task_count = 0
                /\ acc[l].completed_tasks = 0
                /\ "errors" \in DOMAIN result
                /\ Cardinality({ i \in DOMAIN result.errors :
                                   result.errors[i].id = l }) = 1

\* C4: when the root request for the team's spaces fails, the call returns
\* the error record and no snapshot.
C4_RootFailureIsAnError ==
    (Done /\ Traversed /\ RootFailed) => (IsError(result) /\ ~IsSnapshot(result))

\* Every request of the current traversal was answered with the named array.
AllOk == \A n \in {Team} \cup Nodes : resp[n] = NoResp \/ HasStatus(n, 200)

\* The children of p whose dictionaries p has consumed.
Folded(p) == { c \in Kids(p) : st[c] = "collected" /\ ret[c] # NoRet }

RetCount(S, key) == SumOver(S, [c \in Nodes |-> Get(ret[c], key, 0)])

ExpFolders == SumOver(RepSpaces, [s \in Spaces |-> Len(Children(s))])
ExpLists == SumOver(RepFolders, [f \in Folders |-> Len(Children(f))])
ExpTasks == SumOver(RepLists, [l \in Lists |-> Len(Children(l))])

\* C5: every parent's accumulators hold the dictionary of each child it has
\* consumed exactly once, and when every request succeeded every submitted
\* child was consumed and each level's count is the sum of the children
\* reported for its parents.
C5_FoldedExactlyOnce ==
    /\ \A p \in Parents :
         /\ acc[p].task_count = RetCount(Folded(p), "task_count")
         /\ p \in Folders => acc[p].list_count = Len(Children(p))
         /\ p \notin Folders =>
              acc[p].list_count = RetCount(Folded(p), "list_count")
         /\ p \in Spaces => acc[p].folder_count = Len(Children(p))
         /\ p = Team => acc[p].folder_count = RetCount(Folded(p), "folder_count")
    /\ (Done /\ Traversed /\ AllOk) =>
         /\ IsSnapshot(result)
         /\ \A n \in RepSpaces \cup RepFolders \cup RepLists : st[n] = "collected"
         /\ result.Spaces = Len(Children(Team))
         /\ result.Folders = ExpFolders
         /\ result.Lists = ExpLists
         /\ result.TotalTasks = ExpTasks

\* C5 witness: a traversal in which every request succeeded has returned,
\* over two spaces, two folders and three lists holding four tasks.
C5_Witness ==
    /\ Done /\ Traversed /\ AllOk
    /\ result.Spaces = 2 /\ result.Folders = 2
    /\ result.Lists = 3 /\ result.TotalTasks = 4

\* The tasks of the lists whose request was answered, as (list, index) pairs.
AllTasks ==
    UNION { { <<l, i>> : i \in 1..Len(Children(l)) } : l \in RepLists }
TaskAt(x) == Children(x[1])[x[2]]

ExpCompleted == Cardinality({ x \in AllTasks : is_completed(TaskAt(x)) })
ExpHigh == Cardinality({ x \in AllTasks : is_high_priority(TaskAt(x)) })
ExpUnassigned == Cardinality({ x \in AllTasks : is_unassigned(TaskAt(x)) })
ExpFields == UNION { custom_field_names(TaskAt(x)) : x \in AllTasks }
ExpOverdue(t) == Cardinality({ x \in AllTasks : is_overdue(TaskAt(x), t) })

\* The counts other than the overdue count are those of the hierarchy.
CountsOfHierarchy ==
    /\ result.Spaces = Len(Children(Team))
    /\ result.Folders = ExpFolders
    /\ result.Lists = ExpLists
    /\ result.TotalTasks = ExpTasks
    /\ acc[Team].completed_tasks = ExpCompleted
    /\ result.HighPriorityTasks = ExpHigh
    /\ result.UnassignedTasks = ExpUnassigned
    /\ result.CustomFieldsUsed = Cardinality(ExpFields)

\* C6 (as stated): the counts of a returned snapshot are determined by the
\* hierarchy (and the time of the call), whatever the order of completions.
C6_CountsDetermined ==
    (Done /\ Traversed /\ IsSnapshot(result)) =>
        /\ CountsOfHierarchy
        /\ result.OverdueTasks = ExpOverdue(start_time)

\* C6 (amended): all counts but the overdue count are determined by the
\* hierarchy; the overdue count lies between the count at the start and the
\* count at the end of the traversal, and is determined when no due date is
\* passed in between.
C6_CountsDeterminedBarClock ==
    (Done /\ Traversed /\ IsSnapshot(result)) =>
        /\ CountsOfHierarchy
        /\ ExpOverdue(start_time) <= result.OverdueTasks
        /\ result.OverdueTasks <= ExpOverdue(now)
        /\ ExpOverdue(start_time) = ExpOverdue(now) =>
             result.OverdueTasks = ExpOverdue(start_time)

\* C6 witness: a snapshot over both spaces, both folders and all three lists
\* has been returned with the clock unchanged.
C6_Witness ==
    /\ Done /\ Traversed /\ IsSnapshot(result)
    /\ result.Spaces = 2 /\ result.Lists = 3 /\ result.TotalTasks = 4
    /\ result.Folders = 2
    /\ now = start_time

\* round(completed / count * 100, 2), in hundredths of a percent.
RoundedRate(completed, count) ==
    IF count = 0 THEN 0 ELSE (2 * 10000 * completed + count) \div (2 * count)

\* C7: the returned snapshot carries the completion rate, 0 without tasks and
\* otherwise completed/count*100 rounded to two decimals.
C7_SnapshotCarriesRate ==
    (Done /\ Traversed /\ IsSnapshot(result)) =>
        /\ "CompletionRate" \in DOMAIN result
        /\ result.CompletionRate =
             RoundedRate(acc[Team].completed_tasks, acc[Team].task_count)

\* C8 (as stated): every invocation that has returned ran its own traversal.
C8_EveryCallTraverses == Done => Traversed

\* C8 (amended): only the first invocation with given arguments runs a
\* traversal; an invocation made after one with the same arguments has
\* returned runs none and returns the value retained from it, snapshot or
\* error record.
C8_LaterCallsServedFromCache ==
    /\ [](Done => /\ result = cache[call_args]
                  /\ Traversed <=> calls = 1)
    /\ [][(pc = "returned" /\ calls' = calls + 1) =>
            (pc' = "returned" /\ result' = result /\ resp' = FreshResp
               /\ cache' = cache)]_vars

\* C8 witness: a second invocation has returned a snapshot without a single
\* request having been made for it.
C8_Witness ==
    /\ Done /\ calls = 2 /\ ~Traversed
    /\ IsSnapshot(result) /\ result.TotalTasks > 0

\* C9: a folder whose lists request is answered 404 contributes no lists and
\* no tasks, raises nothing, and when nothing else fails the snapshot is
\* returned with the counts of the rest and without an errors entry.
C9_NotFoundFolderIsEmpty ==
    \A f \in Folders :
        HasStatus(f, 404) =>
            /\ st[f] \notin {"raised", "shutdown"}
            /\ Kids(f) = {}
            /\ acc[f].list_count = 0 /\ acc[f].task_count = 0
            /\ (Done /\ \A n \in Nodes \cup {Team} : ~Raises(resp[n])) =>
                 /\ IsSnapshot(result)
                 /\ "errors" \notin DOMAIN result
                 /\ st[f] = "collected"
                 /\ result.Lists = ExpLists
                 /\ result.TotalTasks = ExpTasks

\* C9 witness: folder f2 answered 404 and the snapshot holds the three lists
\* and four tasks of its sibling f1.
C9_Witness ==
    /\ Done /\ HasStatus("f2", 404)
    /\ IsSnapshot(result)
    /\ result.Folders = 2 /\ result.Lists = 3 /\ result.TotalTasks = 4

\* C10: the high-priority count of a list is the number of its tasks whose
\* priority, lower-cased, is "urgent" or "high".
C10_HighPriorityIgnoresCase ==
    \A l \in Lists :
        ret[l] # NoRet =>
            ret[l].high_priority_tasks =
                Cardinality({ i \in 1..Len(Children(l)) :
                    str_lower(Get(Children(l)[i], "priority", s_empty))
                        \in {s_urgent, s_high} })

\* The request of n ended in a transient failure: a network-level exception,
\* a 429 or a 5xx answer.
TransientFailure(n) ==
    \/ Raises(resp[n])
    \/ HasStatus(n, 429)
    \/ (IsResponse(n) /\ resp[n].status >= 500)

\* C11: a node whose request ended in a transient failure has had the request
\* issued four times (the first attempt and three more), and the failure is
\* not raised as an exception out of the node's fetch.
C11_TransientFailureIsRetried ==
    \A n \in {Team} \cup Nodes :
        TransientFailure(n) =>
            /\ sent[n] = 1 + 3
            /\ n \in Nodes => st[n] # "raised"

\* The call is between its start and its return.
InCall == pc \in {"rootfetch", "fanout", "shutdown"}

\* No node is left submitted but not run to its end.
NoneLeftBehind ==
    \A n \in Nodes : st[n] \in {"unsubmitted", "done", "raised", "collected"}

\* C12: every call of fetch_workspace_details that has started eventually
\* returns a value (a snapshot or an error dictionary), and at the return no
\* worker submitted at any level is still queued, running or waiting.
C12_TraversalTerminates ==
    /\ InCall ~> (Done /\ (IsSnapshot(result) \/ IsError(result)))
    /\ [](Done => NoneLeftBehind)

\* C12 witness: the worker of s1 and the worker of f1 both block on their
\* executors while f1's pool is full and a list is still queued behind it.
C12_Witness ==
    /\ st["s1"] = "waiting" /\ st["f1"] = "waiting"
    /\ queue["f1"] # << >>
    /\ Cardinality(Running("f1")) = MaxWorkers

====
